---- MODULE Spec2Model ----
(***************************************************************************)
(* Digital Library API (src/main.py, src/schemas.py).                      *)
(*                                                                         *)
(* Part 1: the token scheme (make_token / parse_token / get_current_user). *)
(* Part 2: the register / borrow_book / return_book handlers run by        *)
(*         concurrent worker threads over the document store.              *)
(*                                                                         *)
(* Strings are sequences of one-character strings.  The clock counts       *)
(* ticks of 1/SubSec second; int(datetime.now().timestamp()) is the clock  *)
(* divided by SubSec, rounded down.                                        *)
(***************************************************************************)
EXTENDS Integers, Sequences, FiniteSets, TLC

VARIABLES clock, issued, last, users, borrows, activity, pc, req, resp

vars == <<clock, issued, last, users, borrows, activity, pc, req, resp>>

authVars == <<clock, issued, last>>

libVars == <<users, borrows, activity, pc, req, resp>>

(***************************************************************************)
(* Bounds of the model.                                                    *)
(***************************************************************************)
\* ticks per second of the modelled clock
SubSec == 2

\* the clock is observed within MaxDrift ticks of an issue time and of the end
\* of the 24h window
MaxDrift == 2

\* number of make_token calls kept
MaxIssued == 2

\* number of worker threads serving requests
NumThreads == 2

\* capacity of the libraryuser, borrow and activity collections
MaxUsers == 2

MaxBorrows == 4

MaxActivity == 5

(***************************************************************************)
(* Program constants.                                                      *)
(***************************************************************************)
\* timedelta(hours=24), in seconds
TTL == 86400

\* borrow_book: "limit: 3 active borrows"
BORROW_LIMIT == 3

\* SECRET = os.getenv("SECRET_KEY", ...): the configured secret, here "k"
SECRET == <<"k">>

DELIM == "|"

(***************************************************************************)
(* Strings.                                                                *)
(***************************************************************************)
DigitChars == <<"0", "1", "2", "3", "4", "5", "6", "7", "8", "9">>

HexChars == <<"0", "1", "2", "3", "4", "5", "6", "7", "8", "9", "a", "b", "c", "d", "e", "f">>

\* the characters that occur in payloads and in the secret
Chars == <<"0", "1", "2", "3", "4", "5", "6", "7", "8", "9", "|", "a", "b", "k">>

IndexOf(c, s) == CHOOSE i \in 1..Len(s) : s[i] = c

\* str.split("|"): the segments between delimiters; "" splits into [""]
RECURSIVE SplitFrom(_, _, _)
SplitFrom(s, i, cur) ==
    IF i > Len(s) THEN <<cur>>
    ELSE IF s[i] = DELIM THEN <<cur>> \o SplitFrom(s, i + 1, <<>>)
    ELSE SplitFrom(s, i + 1, Append(cur, s[i]))

Split(s) == SplitFrom(s, 1, <<>>)

\* "|".join(parts), as the f-strings of make_token and parse_token build it
RECURSIVE Join(_)
Join(parts) ==
    IF Len(parts) = 0 THEN <<>>
    ELSE IF Len(parts) = 1 THEN parts[1]
    ELSE parts[1] \o <<DELIM>> \o Join(Tail(parts))

\* str(n) of a non-negative int: its decimal digits
RECURSIVE IntToStr(_)
IntToStr(n) ==
    IF n < 10 THEN <<DigitChars[n + 1]>>
    ELSE IntToStr(n \div 10) \o <<DigitChars[(n % 10) + 1]>>

\* int(s) raises ValueError unless s is a decimal numeral (signs, blanks and
\* underscores are not among the modelled characters)
IsInt(s) == Len(s) > 0 /\ \A i \in 1..Len(s) : \E d \in 1..10 : DigitChars[d] = s[i]

RECURSIVE StrToInt(_)
StrToInt(s) ==
    IF Len(s) = 0 THEN 0
    ELSE 10 * StrToInt(SubSeq(s, 1, Len(s) - 1)) + (IndexOf(s[Len(s)], DigitChars) - 1)

\* hashlib.sha256(x.encode()).hexdigest(): a deterministic digest over the hex
\* alphabet, idealised as collision-free (one hex digit per input character)
sha256hex(x) == [i \in 1..Len(x) |-> HexChars[IndexOf(x[i], Chars)]]

(***************************************************************************)
(* The clock.                                                              *)
(***************************************************************************)
\* int(datetime.now(timezone.utc).timestamp())
NowTs(t) == t \div SubSec

\* the instants at which the model observes the clock: around the first issue
\* and around the end of its 24h window
Instants ==
    (0..MaxDrift) \cup { TTL * SubSec + j : j \in (0 - MaxDrift)..MaxDrift }

(***************************************************************************)
(* make_token / parse_token.                                               *)
(***************************************************************************)
None == <<"None">>

Some(s) == <<"str", s>>

\* line 47, with a coarser clock
Expiry_even(t) == ((NowTs(t) + TTL) \div 2) * 2

\* line 47: int((now + timedelta(hours=24)).timestamp())
Expiry(t) == (t + TTL * SubSec) \div SubSec

make_token(user_id, t) ==
    LET expiry == IntToStr(Expiry(t))
        payload == user_id \o <<DELIM>> \o expiry
        signature == sha256hex(payload \o SECRET)
    IN  payload \o <<DELIM>> \o signature

\* line 57, comparing only the first four characters
SignatureOk_prefix(payload, signature) ==
    LET h == sha256hex(payload \o SECRET)
    IN  SubSeq(h, 1, 4) = SubSeq(signature, 1, 4)

\* line 57: the recomputed digest equals the third field
SignatureOk(payload, signature) == sha256hex(payload \o SECRET) = signature

\* line 59 with <= for <
Expired_le(expiry, now) == StrToInt(expiry) <= now

\* line 59 with a second of grace
Expired_grace(expiry, now) == StrToInt(expiry) + 1 < now

\* line 59: int(expiry) < int(now.timestamp())
Expired(expiry, now) == StrToInt(expiry) < now

Result(raised, ret, exit) == [raised |-> raised, ret |-> ret, exit |-> exit]

\* the try body with the expiry test placed before the signature test
parse_token_try_swapped(token, now) ==
    LET parts == Split(token) IN
    IF Len(parts) # 3 THEN Result(TRUE, None, "split")
    ELSE LET user_id == parts[1]
             expiry == parts[2]
             signature == parts[3]
             payload == user_id \o <<DELIM>> \o expiry
         IN  IF ~IsInt(expiry) THEN Result(TRUE, None, "int")
             ELSE IF Expired(expiry, now) THEN Result(FALSE, None, "expiry")
             ELSE IF ~SignatureOk(payload, signature) THEN Result(FALSE, None, "signature")
             ELSE Result(FALSE, Some(user_id), "ok")

\* lines 55-61, the body of the try: raised is TRUE where a ValueError leaves it
\* (the unpacking of line 55, int() of line 59); exit names the statement left by
parse_token_try(token, now) ==
    LET parts == Split(token) IN
    IF Len(parts) # 3 THEN Result(TRUE, None, "split")
    ELSE LET user_id == parts[1]
             expiry == parts[2]
             signature == parts[3]
             payload == user_id \o <<DELIM>> \o expiry
         IN  IF ~SignatureOk(payload, signature) THEN Result(FALSE, None, "signature")
             ELSE IF ~IsInt(expiry) THEN Result(TRUE, None, "int")
             ELSE IF Expired(expiry, now) THEN Result(FALSE, None, "expiry")
             ELSE Result(FALSE, Some(user_id), "ok")

\* parse_token without its except clause
parse_token_noexcept(token, now) == parse_token_try(token, now)

\* the failure value told apart by the statement that produced it
parse_token_typed(token, now) ==
    LET r == parse_token_try(token, now) IN
    IF r.exit = "ok" THEN r ELSE Result(FALSE, <<"None", r.exit>>, r.exit)

\* lines 53-63: except Exception: return None
parse_token(token, now) ==
    LET r == parse_token_try(token, now) IN
    IF r.raised THEN Result(FALSE, None, r.exit) ELSE r

\* the _id create_document gives the n-th document of a collection: ObjectIds
\* are distinct hex strings
IdOf(n) == <<HexChars[10 + n]>>

\* lines 66-73: what get_current_user answers with, given parse_token's result r
\* and the libraryuser collection
get_current_user(r, accounts) ==
    IF r.ret = None \/ r.ret = Some(<<>>)
    THEN [status |-> 401, detail |-> "Invalid or expired token"]
    ELSE IF ~\E i \in 1..Len(accounts) : accounts[i].id = r.ret[2]
         THEN [status |-> 401, detail |-> "User not found"]
         ELSE [status |-> 200, detail |-> "ok"]

(***************************************************************************)
(* The clients of the token scheme: they hold issued credentials and       *)
(* present them, unchanged or altered.                                     *)
(***************************************************************************)
\* subject ids handed to make_token: an account id, and a string that holds
\* the delimiter
Subjects == { IdOf(1), <<"a", "|", "b">> }

\* characters a client writes over a signature character
TamperChars == { "0", "z", "|" }

\* expiry values a client writes over the expiry segment
ExpiryChoices == { 0, TTL - 1, TTL + 1, 2 * TTL }

NoMut == [kind |-> "none", pos |-> 0, ch |-> "", exp |-> 0]

ReplaceAt(s, i, c) == [s EXCEPT ![i] = c]

\* the alterations of a credential tok
Mutations(tok) ==
    LET parts == Split(tok) IN
    { [kind |-> k, pos |-> 0, ch |-> "", exp |-> 0] : k \in {"drop", "extra", "garbage"} }
    \cup
    IF Len(parts) # 3 THEN {}
    ELSE { m \in { [kind |-> "sig", pos |-> i, ch |-> c, exp |-> 0] :
                       i \in 1..Len(parts[3]), c \in TamperChars } :
             parts[3][m.pos] # m.ch }
         \cup
         { [kind |-> "expiry", pos |-> 0, ch |-> "", exp |-> e] :
             e \in ExpiryChoices \ (IF IsInt(parts[2]) THEN {StrToInt(parts[2])} ELSE {}) }

Apply(tok, m) ==
    LET parts == Split(tok) IN
    CASE m.kind = "none" -> tok
      [] m.kind = "sig" -> Join(<<parts[1], parts[2], ReplaceAt(parts[3], m.pos, m.ch)>>)
      [] m.kind = "expiry" -> Join(<<parts[1], IntToStr(m.exp), parts[3]>>)
      [] m.kind = "drop" -> Join(SubSeq(parts, 1, Len(parts) - 1))
      [] m.kind = "extra" -> tok \o <<DELIM, "0">>
      [] m.kind = "garbage" -> <<"a">>

NoCall ==
    [tok |-> <<>>, base |-> <<>>, mut |-> NoMut, at |-> 0, raised |-> FALSE,
     ret |-> None, exit |-> "none", status |-> 0]

\* a libraryuser document
Account(n, email) == [id |-> IdOf(n), email |-> email]

\* the token scheme is run against a store that holds one account
InitAuth ==
    /\ clock \in { t \in Instants : t <= MaxDrift }
    /\ issued = <<>>
    /\ last = NoCall
    /\ users = <<Account(1, "e1")>>
    /\ borrows = <<>>
    /\ activity = <<>>
    /\ pc = [t \in 1..NumThreads |-> "idle"]
    /\ req = [t \in 1..NumThreads |-> <<>>]
    /\ resp = [t \in 1..NumThreads |-> 0]

\* time passes between requests
Advance(t) ==
    /\ last = NoCall
    /\ t > clock
    /\ clock' = t
    /\ UNCHANGED <<issued, last>>
    /\ UNCHANGED libVars

\* lines 113, 123: a handler calls make_token(user_id) and hands the credential out
Issue(s) ==
    /\ last = NoCall
    /\ Len(issued) < MaxIssued
    /\ issued' = Append(issued, [uid |-> s, t0 |-> clock, tok |-> make_token(s, clock)])
    /\ UNCHANGED <<clock, last>>
    /\ UNCHANGED libVars

\* lines 66-73: a request presents credential issued[i], altered by m;
\* get_current_user calls parse_token on it and answers from what it returns
Verify(i, m) ==
    LET tok == Apply(issued[i].tok, m)
        r == parse_token(tok, NowTs(clock))
    IN  /\ last' = [tok |-> tok, base |-> issued[i].tok, mut |-> m, at |-> clock,
                    raised |-> r.raised, ret |-> r.ret, exit |-> r.exit,
                    status |-> get_current_user(r, users).status]
        /\ UNCHANGED <<clock, issued>>
        /\ UNCHANGED libVars

\* the request is over: nothing of it is kept
Respond ==
    /\ last # NoCall
    /\ last' = NoCall
    /\ UNCHANGED <<clock, issued>>
    /\ UNCHANGED libVars

\* a client presents a credential it holds, unchanged, or the one it was
\* handed last, altered
Present ==
    /\ last = NoCall
    /\ \E i \in 1..Len(issued) :
         \E m \in {NoMut} \cup (IF i = Len(issued) THEN Mutations(issued[i].tok) ELSE {}) :
            Verify(i, m)

Next ==
    \/ \E t \in Instants : Advance(t)
    \/ \E s \in Subjects : Issue(s)
    \/ Present
    \/ Respond

Spec == InitAuth /\ [][Next]_vars

(***************************************************************************)
(* The register, borrow_book and return_book handlers.  FastAPI runs each  *)
(* def endpoint on a worker thread, so handlers interleave between their   *)
(* calls on the store; each call on the store is one step.  Documents get  *)
(* their _id from their position in the collection.                        *)
(***************************************************************************)
Threads == 1..NumThreads

Emails == { "e1", "e2" }

Statuses == { "borrowed", "returned" }

BOOK == "b1"

Idle == <<>>

InitLib ==
    /\ clock = 0
    /\ issued = <<>>
    /\ last = NoCall
    /\ users = <<>>
    /\ borrows = <<>>
    /\ activity = <<>>
    /\ pc = [t \in Threads |-> "idle"]
    /\ req = [t \in Threads |-> Idle]
    /\ resp = [t \in Threads |-> 0]

\* documents the handlers in flight are still to insert
Pending(labels) == Cardinality({ t \in Threads : pc[t] \in labels })

RoomFor(coll, cap, labels) == Len(coll) + Pending(labels) < cap

ActivityLabels == { "reg_insert", "reg_activity", "bor_insert", "bor_activity", "ret_update", "ret_activity" }

\* line 260: count_documents({"user_id": u, "status": "borrowed"})
ActiveBorrows(u) ==
    Cardinality({ i \in 1..Len(borrows) : borrows[i].user_id = u /\ borrows[i].status = "borrowed" })

\* line 103: find_one({"email": email})
EmailTaken(email) == \E i \in 1..Len(users) : users[i].email = email

Finish(t, status) ==
    /\ pc' = [pc EXCEPT ![t] = "idle"]
    /\ req' = [req EXCEPT ![t] = Idle]
    /\ resp' = [resp EXCEPT ![t] = status]

Goto(t, label, r) ==
    /\ pc' = [pc EXCEPT ![t] = label]
    /\ req' = [req EXCEPT ![t] = r]
    /\ UNCHANGED resp

\* lines 102-104: register looks the email up
RegisterFind(t, email) ==
    /\ pc[t] = "idle"
    /\ RoomFor(users, MaxUsers, {"reg_insert"})
    /\ RoomFor(activity, MaxActivity, ActivityLabels)
    /\ IF EmailTaken(email)
       THEN Finish(t, 400)
       ELSE Goto(t, "reg_insert", [email |-> email])
    /\ UNCHANGED <<users, borrows, activity>>
    /\ UNCHANGED authVars

\* lines 105-113: create_document("libraryuser", user); make_token(uid)
RegisterInsert(t) ==
    /\ pc[t] = "reg_insert"
    /\ users' = Append(users, Account(Len(users) + 1, req[t].email))
    /\ Goto(t, "reg_activity",
            [email |-> req[t].email, uid |-> IdOf(Len(users) + 1),
             token |-> make_token(IdOf(Len(users) + 1), clock)])
    /\ UNCHANGED <<borrows, activity>>
    /\ UNCHANGED authVars

\* lines 114-115: the activity record, and the answer
RegisterActivity(t) ==
    /\ pc[t] = "reg_activity"
    /\ activity' = Append(activity, [type |-> "register", user_id |-> req[t].uid])
    /\ Finish(t, 200)
    /\ UNCHANGED <<users, borrows>>
    /\ UNCHANGED authVars

\* lines 256-262: borrow_book by the authenticated account cur, for the
\* user_id and status of the request body; the count of active borrows
BorrowCount(t, cur, uid, status) ==
    /\ pc[t] = "idle"
    /\ cur \in 1..Len(users)
    /\ RoomFor(borrows, MaxBorrows, {"bor_insert"})
    /\ RoomFor(activity, MaxActivity, ActivityLabels)
    /\ IF uid # users[cur].id THEN Finish(t, 403)
       ELSE IF ActiveBorrows(uid) >= BORROW_LIMIT THEN Finish(t, 400)
       ELSE Goto(t, "bor_insert", [cur |-> users[cur].id, user_id |-> uid, status |-> status])
    /\ UNCHANGED <<users, borrows, activity>>
    /\ UNCHANGED authVars

\* line 263: create_document("borrow", borrow)
BorrowInsert(t) ==
    /\ pc[t] = "bor_insert"
    /\ borrows' = Append(borrows, [book_id |-> BOOK, user_id |-> req[t].user_id, status |-> req[t].status])
    /\ Goto(t, "bor_activity", req[t])
    /\ UNCHANGED <<users, activity>>
    /\ UNCHANGED authVars

\* lines 264-265
BorrowActivity(t) ==
    /\ pc[t] = "bor_activity"
    /\ activity' = Append(activity, [type |-> "borrow", user_id |-> req[t].cur])
    /\ Finish(t, 200)
    /\ UNCHANGED <<users, borrows>>
    /\ UNCHANGED authVars

\* lines 269-274: return_book by the authenticated account cur looks the borrow up
ReturnFind(t, cur, b) ==
    /\ pc[t] = "idle"
    /\ cur \in 1..Len(users)
    /\ RoomFor(activity, MaxActivity, ActivityLabels)
    /\ IF b > Len(borrows) THEN Finish(t, 404)
       ELSE IF borrows[b].user_id # users[cur].id THEN Finish(t, 403)
       ELSE Goto(t, "ret_update", [cur |-> users[cur].id, borrow_id |-> b])
    /\ UNCHANGED <<users, borrows, activity>>
    /\ UNCHANGED authVars

\* line 275: update_one: status = "returned"
ReturnUpdate(t) ==
    /\ pc[t] = "ret_update"
    /\ borrows' = [borrows EXCEPT ![req[t].borrow_id].status = "returned"]
    /\ Goto(t, "ret_activity", req[t])
    /\ UNCHANGED <<users, activity>>
    /\ UNCHANGED authVars

\* lines 276-277
ReturnActivity(t) ==
    /\ pc[t] = "ret_activity"
    /\ activity' = Append(activity, [type |-> "return", user_id |-> req[t].cur])
    /\ Finish(t, 200)
    /\ UNCHANGED <<users, borrows>>
    /\ UNCHANGED authVars

NextLib ==
    \E t \in Threads :
        \/ \E e \in Emails : RegisterFind(t, e)
        \/ RegisterInsert(t)
        \/ RegisterActivity(t)
        \/ \E cur \in 1..MaxUsers, n \in 1..MaxUsers, st \in Statuses : BorrowCount(t, cur, IdOf(n), st)
        \/ BorrowInsert(t)
        \/ BorrowActivity(t)
        \/ \E cur \in 1..MaxUsers, b \in 1..MaxBorrows : ReturnFind(t, cur, b)
        \/ ReturnUpdate(t)
        \/ ReturnActivity(t)

SpecLib == InitLib /\ [][NextLib]_vars

(***************************************************************************)
(* Properties of the token scheme, over the call in flight (last) and the  *)
(* credentials issued.                                                     *)
(***************************************************************************)
\* a subject id as issue accepts it: non-empty, without the delimiter
ValidSubject(s) == Len(s) > 0 /\ \A k \in 1..Len(s) : s[k] # DELIM

Called == last.exit # "none"

\* the call in flight presents credential issued[i] as it was issued
PresentsIssued(i) == Called /\ last.mut.kind = "none" /\ last.tok = issued[i].tok

\* the credential the call in flight altered is one verify accepts at that instant
BaseAccepted == parse_token(last.base, NowTs(last.at)).exit = "ok"

\* the error kinds of the specification, by the statement parse_token leaves by
Kind(exit) ==
    CASE exit \in {"split", "int"} -> "Malformed"
      [] exit = "signature" -> "Tampered"
      [] exit = "expiry" -> "Expired"
      [] OTHER -> "none"

Failed(r) == Kind(r.exit) # "none"

\* the presented string has three fields and a signature that matches
CorrectlySigned(tok) ==
    LET parts == Split(tok) IN
    /\ Len(parts) = 3
    /\ SignatureOk(parts[1] \o <<DELIM>> \o parts[2], parts[3])
    /\ IsInt(parts[2])

ExpiryOf(tok) == StrToInt(Split(tok)[2])

\* C1: a credential issued for a valid subject id at t0 and presented unchanged
\* at any time t with t0 <= t < t0 + 24h is answered with that subject id.
C1_RoundTrip ==
    \A i \in 1..Len(issued) :
        ( /\ PresentsIssued(i)
          /\ ValidSubject(issued[i].uid)
          /\ issued[i].t0 <= last.at
          /\ last.at < issued[i].t0 + TTL * SubSec )
        => (last.ret = Some(issued[i].uid) /\ ~last.raised)

\* C1 witness: an accepted call in the last second of the window, where the
\* integer clock equals the expiry
C1_Witness ==
    \E i \in 1..Len(issued) :
        /\ PresentsIssued(i)
        /\ ValidSubject(issued[i].uid)
        /\ last.at > issued[i].t0
        /\ last.at < issued[i].t0 + TTL * SubSec
        /\ NowTs(last.at) = Expiry(issued[i].t0)
        /\ last.ret = Some(issued[i].uid)

\* C2 as stated: every correctly signed three-field credential whose expiry is
\* <= the integer clock, the boundary expiry = now included, is rejected as Expired.
C2_Original ==
    ( /\ Called
      /\ CorrectlySigned(last.tok)
      /\ ExpiryOf(last.tok) <= NowTs(last.at) )
    => (last.exit = "expiry" /\ last.ret = None)

\* C2 amended: a correctly signed three-field credential is rejected as Expired
\* when its expiry is strictly less than the integer clock, and is accepted
\* otherwise, the boundary expiry = now included.
C2_ExpiryStrict ==
    ( Called /\ CorrectlySigned(last.tok) )
    => /\ ExpiryOf(last.tok) < NowTs(last.at) => (last.exit = "expiry" /\ last.ret = None)
       /\ ExpiryOf(last.tok) >= NowTs(last.at) => last.ret = Some(Split(last.tok)[1])

\* C2 witness: a correctly signed credential accepted at expiry = now
C2_Witness ==
    /\ Called
    /\ CorrectlySigned(last.tok)
    /\ ExpiryOf(last.tok) = NowTs(last.at)
    /\ last.exit = "ok"

\* C3: a credential issued for a valid subject id at t and presented unchanged
\* at t + 24h + 1s is rejected by the expiry test and yields no subject id.
C3_ExpiredAfterWindow ==
    \A i \in 1..Len(issued) :
        ( /\ PresentsIssued(i)
          /\ ValidSubject(issued[i].uid)
          /\ last.at = issued[i].t0 + (TTL + 1) * SubSec )
        => (last.exit = "expiry" /\ last.ret = None)

\* C3 witness: such a call was made
C3_Witness ==
    \E i \in 1..Len(issued) :
        /\ PresentsIssued(i)
        /\ ValidSubject(issued[i].uid)
        /\ last.at = issued[i].t0 + (TTL + 1) * SubSec
        /\ last.exit = "expiry"

\* C4 as stated: replacing any one character of the signature of a credential
\* verify accepts by any other character is rejected by the signature test.
C4_Original ==
    ( Called /\ last.mut.kind = "sig" /\ BaseAccepted )
    => (last.exit = "signature" /\ last.ret = None)

\* C4 amended: replacing any one character of the signature of a credential
\* verify accepts by another character yields no subject id; the signature test
\* rejects it unless the new character is the delimiter, and then the field
\* count does.
C4_TamperDetected ==
    ( Called /\ last.mut.kind = "sig" /\ BaseAccepted )
    => /\ last.ret = None
       /\ ~last.raised
       /\ last.mut.ch # DELIM => last.exit = "signature"
       /\ last.mut.ch = DELIM => last.exit = "split"

\* C4 witness: the last signature character of an accepted credential replaced
\* by a character that is not the delimiter
C4_Witness ==
    /\ Called
    /\ last.mut.kind = "sig"
    /\ BaseAccepted
    /\ last.mut.ch # DELIM
    /\ last.mut.pos = Len(Split(last.base)[3])
    /\ last.exit = "signature"

\* C5: the tests run in the order field count, signature, expiry parse, expiry
\* comparison; an accepted credential whose expiry is rewritten to an earlier,
\* already past value with the signature kept is rejected by the signature test,
\* not by the expiry test.
C5_GateOrder ==
    /\ ( /\ Called
         /\ last.mut.kind = "expiry"
         /\ BaseAccepted
         /\ last.mut.exp < ExpiryOf(last.base)
         /\ last.mut.exp < NowTs(last.at) )
       => (last.exit = "signature" /\ last.ret = None)
    /\ last.exit = "signature" => Len(Split(last.tok)) = 3
    /\ last.exit \in {"int", "expiry", "ok"} =>
         /\ Len(Split(last.tok)) = 3
         /\ SignatureOk(Split(last.tok)[1] \o <<DELIM>> \o Split(last.tok)[2], Split(last.tok)[3])
    /\ last.exit \in {"expiry", "ok"} => IsInt(Split(last.tok)[2])

\* C5 witness: an accepted credential's expiry rewritten to a past value
C5_Witness ==
    /\ Called
    /\ last.mut.kind = "expiry"
    /\ BaseAccepted
    /\ last.mut.exp < ExpiryOf(last.base)
    /\ last.mut.exp < NowTs(last.at)

\* C6: a string that does not split into exactly 3 segments, a credential issued
\* for a subject id holding the delimiter included, is answered None: nothing is
\* raised to the caller and no subject id is returned.
C6_MalformedNoRaise ==
    ( Called /\ Len(Split(last.tok)) # 3 )
    => (~last.raised /\ last.ret = None /\ last.exit = "split")

\* C6 witness: an unchanged credential that make_token built for a subject id
\* holding the delimiter was presented
C6_Witness ==
    /\ Called
    /\ last.mut.kind = "none"
    /\ Len(Split(last.tok)) > 3
    /\ last.ret = None

\* the value verify returns for a Malformed credential (a string of one segment)
MalformedAnswer == parse_token(<<"a">>, 0).ret

\* C7 as stated: the values verify returns for credentials failing with
\* different error kinds are different: what a Tampered or an Expired
\* credential is answered with is not what a Malformed one is answered with.
C7_Original ==
    ( Failed(last) /\ Kind(last.exit) # "Malformed" )
    => last.ret # MalformedAnswer

\* C7 amended: verify returns the same value, None, for a Malformed, a Tampered
\* and an Expired credential, and get_current_user answers each with 401: the
\* direct caller cannot tell which check failed.
C7_FailuresAlike ==
    Failed(last) =>
        /\ last.ret = None
        /\ last.ret = MalformedAnswer
        /\ ~last.raised
        /\ last.status = 401

\* C7 witness: an Expired credential answered with the value of a Malformed one
C7_Witness ==
    /\ Kind(last.exit) = "Expired"
    /\ last.ret = MalformedAnswer

\* C8 as stated: two calls of issue with the same subject id at different times
\* produce different credential strings.
C8_Original ==
    \A i, j \in 1..Len(issued) :
        ( /\ i < j
          /\ issued[i].uid = issued[j].uid
          /\ ValidSubject(issued[i].uid)
          /\ issued[i].t0 # issued[j].t0 )
        => issued[i].tok # issued[j].tok

\* C8 amended: two calls of issue with the same subject id produce different
\* credential strings exactly when their times differ in the integer second
\* (two calls within one second produce the same string); each credential
\* verifies to the subject id within its own 24h window.
C8_DistinctPerSecond ==
    \A i, j \in 1..Len(issued) :
        ( /\ i < j
          /\ issued[i].uid = issued[j].uid
          /\ ValidSubject(issued[i].uid) )
        => /\ (issued[i].tok # issued[j].tok) <=> (NowTs(issued[i].t0) # NowTs(issued[j].t0))
           /\ \A k \in {i, j} :
                ( /\ PresentsIssued(k)
                  /\ last.at < issued[k].t0 + TTL * SubSec )
                => last.ret = Some(issued[k].uid)

\* C8 witness: of two credentials issued for one subject id in different
\* seconds, the later is accepted at an instant where the earlier has expired
C8_Witness ==
    \E i, j \in 1..Len(issued) :
        /\ i < j
        /\ issued[i].uid = issued[j].uid
        /\ ValidSubject(issued[i].uid)
        /\ issued[i].tok # issued[j].tok
        /\ PresentsIssued(j)
        /\ last.ret = Some(issued[j].uid)
        /\ parse_token(issued[i].tok, NowTs(last.at)).exit = "expiry"

(***************************************************************************)
(* Properties of the handlers.                                             *)
(***************************************************************************)
\* C9: after any interleaving of borrow_book and return_book requests no user
\* has more than 3 borrow records with status "borrowed".
C9_BorrowLimit ==
    \A n \in 1..MaxUsers : ActiveBorrows(IdOf(n)) <= BORROW_LIMIT

\* C10: after any interleaving of register requests the libraryuser collection
\* never holds two accounts with the same email.
C10_EmailUnique ==
    \A i, j \in 1..Len(users) : i # j => users[i].email # users[j].email

====
